---- MODULE Spec2Model ----
(***************************************************************************)
(* A model of slack-sdk-oauth-mongodb: the OAuth state store               *)
(* (state_store/mongodb.py) and the installation store                     *)
(* (installation_store/mongodb.py), both over MongoDB collections.         *)
(*                                                                         *)
(* A collection is the bag of its documents (the _id the store adds is     *)
(* left out). insert_one adds a document, delete_many removes every        *)
(* document that matches its filter in one store operation, find_one with  *)
(* a sort returns one of the matching documents that is extreme in the     *)
(* sort key.                                                               *)
(***************************************************************************)
EXTENDS Integers, Sequences, FiniteSets, Bags, TLC

\* ------------------------------------------------------------------ bounds

\* How many distinct values uuid4() hands out.
NumUUIDs == 2
\* The clock runs from 0 to MaxTime.
MaxTime == 1
\* expiration_seconds is drawn from 0..MaxExpiration.
MaxExpiration == 1
\* How many client threads call the state store concurrently.
NumThreads == 2

\* How many save() calls, and how many save_bot() calls, a run makes.
MaxSaves == 2
\* installed_at is drawn from 1..MaxInstalledAt.
MaxInstalledAt == 2

UUIDs == 1..NumUUIDs
\* The extra arguments a caller passes to issue().
IssueArgs == {<<>>, <<"request">>}
Threads == 1..NumThreads
InstalledAts == 1..MaxInstalledAt

\* Python's None, and MongoDB's null.
None == "None"

\* A string that uuid4() never returns: what a caller that was issued nothing
\* passes to consume.
UnknownState == 0

VARIABLES
    \* MongoDBAsyncOAuthStateStore
    expiration_seconds,   \* self.expiration_seconds
    oauth_states,         \* self.slack_oauth_states_collection
    now,                  \* what time() returns
    uuid_count,           \* how many values uuid4() has handed out
    issue_ret,            \* what the last issue() returned
    call,                 \* per thread: the state store call it is in
    expire_of,            \* history: state -> the expire_at it was inserted with
    wins,                 \* history: state -> how many consume calls returned True
    \* MongoDBInstallationStore
    slack_installations,  \* self.slack_installations_collection
    slack_bots,           \* self.slack_bots_collection
    ret,                  \* the last installation store call and what it returned
    installations_indexes,  \* the indexes of self.slack_installations_collection
    bots_indexes          \* the indexes of self.slack_bots_collection

state_vars ==
    <<expiration_seconds, oauth_states, now, uuid_count, issue_ret, call, expire_of, wins>>

inst_vars == <<slack_installations, slack_bots, ret>>

index_vars == <<installations_indexes, bots_indexes>>

vars == <<state_vars, inst_vars, index_vars>>

\* ------------------------------------------------- the document store (pymongo)

\* A faulty insert that replaces an equal document instead of adding one.
insert_one_replacing(coll, doc) ==
    [d \in BagToSet(coll) \cup {doc} |-> IF d = doc THEN 1 ELSE CopiesIn(d, coll)]

\* Collection.insert_one(doc): the collection with the document added.
insert_one(coll, doc) ==
    [d \in BagToSet(coll) \cup {doc} |-> CopiesIn(d, coll) + (IF d = doc THEN 1 ELSE 0)]

\* A faulty filter: "$gte" where consume has "$gt".
ConsumeFilterGte(doc, state, t) == doc.state = state /\ doc.expire_at >= t

\* consume, line 56: the filter {"state": state, "expire_at": {"$gt": time()}}.
ConsumeFilter(doc, state, t) == doc.state = state /\ doc.expire_at > t

\* The documents of coll that consume's filter matches.
ConsumeMatches(coll, state, t) ==
    {doc \in BagToSet(coll) : ConsumeFilter(doc, state, t)}

\* A collection without the documents in gone.
Without(coll, gone) == [doc \in BagToSet(coll) \ gone |-> coll[doc]]

\* How many documents of coll are in docs.
CountIn(coll, docs) == BagCardinality([doc \in BagToSet(coll) \cap docs |-> coll[doc]])

\* A faulty consume that looks the documents up and deletes none.
delete_many_states_none(coll, state, t) == coll

\* A faulty consume that deletes by state alone, expired documents too.
delete_many_states_by_state(coll, state, t) ==
    Without(coll, {doc \in BagToSet(coll) : doc.state = state})

\* consume, line 55: Collection.delete_many(filter), what it leaves of the collection.
delete_many_states(coll, state, t) == Without(coll, ConsumeMatches(coll, state, t))

\* DeleteResult.deleted_count of that delete_many.
deleted_count(coll, state, t) == CountIn(coll, ConsumeMatches(coll, state, t))

\* ----------------------------------------------------------- state store

\* A thread that is in no call.
Idle == [op |-> "idle", state |-> UnknownState, t |-> 0, seen |-> "unknown", result |-> FALSE]

\* The states issue() has returned so far.
IssuedStates == {s \in UUIDs : expire_of[s] >= 0}

\* uuid4(): a value never handed out before.
uuid4 == uuid_count + 1

\* A faulty issue that stores the time of the call as expire_at.
IssueDocumentNoExpiration(state, t) == [state |-> state, expire_at |-> t]

\* issue, line 48: the document built from the new state and time().
IssueDocument(state, t) == [state |-> state, expire_at |-> t + expiration_seconds]

\* A faulty consume that returns deleted_count >= 0.
ConsumeResultGe(count) == count >= 0

\* consume, line 61: the value returned.
ConsumeResult(count) == count > 0

\* History: what the token is when a consume call reads the clock. "unknown":
\* never issued; "expired": the clock has reached its expire_at; otherwise
\* "valid" while its document is in the collection and "consumed" once it is not.
TokenAt(state, t) ==
    IF state \notin IssuedStates THEN "unknown"
    ELSE IF t >= expire_of[state] THEN "expired"
    ELSE IF \E doc \in BagToSet(oauth_states) : doc.state = state THEN "valid"
    ELSE "consumed"

StateInit ==
    /\ expiration_seconds \in 0..MaxExpiration
    /\ oauth_states = EmptyBag
    /\ now = 0
    /\ uuid_count = 0
    /\ issue_ret = UnknownState
    /\ call = [p \in Threads |-> Idle]
    /\ expire_of = [s \in UUIDs |-> -1]
    /\ wins = [s \in UUIDs \cup {UnknownState} |-> 0]

\* time() advances.
Tick ==
    /\ now < MaxTime
    /\ now' = now + 1
    /\ UNCHANGED <<expiration_seconds, oauth_states, uuid_count, issue_ret, call, expire_of, wins>>

\* issue(*args, **kwargs), lines 40-50: the arguments are logged and not used;
\* the state is drawn, the document is built from time() and inserted, and the
\* state is returned (issue_ret).
issue(args) ==
    /\ uuid_count < NumUUIDs
    /\ uuid_count' = uuid4
    /\ oauth_states' = insert_one(oauth_states, IssueDocument(uuid4, now))
    /\ expire_of' = [expire_of EXCEPT ![uuid4] = IssueDocument(uuid4, now).expire_at]
    /\ issue_ret' = uuid4
    /\ UNCHANGED <<expiration_seconds, now, call, wins>>

\* consume(state), lines 52-57: the filter is built from the argument and time().
\* The argument is a state some issue() returned, or a string none did.
consume_call(p, state) ==
    /\ call[p].op \in {"idle", "consumed"}
    /\ state \in IssuedStates \cup {UnknownState}
    /\ call' = [call EXCEPT ![p] =
                  [Idle EXCEPT !.op = "consume", !.state = state, !.t = now,
                               !.seen = TokenAt(state, now)]]
    /\ UNCHANGED <<expiration_seconds, oauth_states, now, uuid_count, issue_ret, expire_of, wins>>

\* consume(state), lines 55-61: delete_many reaches the store, one store
\* operation; the value returned is computed from its deleted_count.
consume_delete(p) ==
    /\ call[p].op = "consume"
    /\ LET state  == call[p].state
           result == ConsumeResult(deleted_count(oauth_states, state, call[p].t))
       IN  /\ oauth_states' = delete_many_states(oauth_states, state, call[p].t)
           /\ call' = [call EXCEPT ![p].op = "consumed", ![p].t = 0, ![p].result = result]
           /\ wins' = [wins EXCEPT ![state] = @ + (IF result THEN 1 ELSE 0)]
    /\ UNCHANGED <<expiration_seconds, now, uuid_count, issue_ret, expire_of>>

\* async_issue(*args, **kwargs), lines 63-64: self.issue(*args, **kwargs).
async_issue(args) == issue(args)

\* async_consume(state), lines 66-67: self.consume(state).
async_consume_call(p, state) == consume_call(p, state)
async_consume_delete(p) == consume_delete(p)

StateNext ==
    \/ Tick
    \/ \E args \in IssueArgs : issue(args)
    \/ \E p \in Threads : \E state \in UUIDs \cup {UnknownState} : consume_call(p, state)
    \/ \E p \in Threads : consume_delete(p)

\* ------------------------------------------------ state store: the claims

\* The threads whose consume(state) call has been served and returned.
Served(state) == {p \in Threads : call[p].op = "consumed" /\ call[p].state = state}

\* C1: for every issued token, consume returns True at most once over the
\* whole run; a call made while the token is issued, unexpired and not yet
\* consumed brings the number of True results to exactly one; and a call made
\* after a successful one returns False although the clock has not reached
\* expire_at.
C1_ConsumeOnce ==
    \A state \in UUIDs :
        /\ wins[state] <= 1
        /\ \A p \in Served(state) :
              /\ call[p].seen = "valid" => wins[state] = 1
              /\ call[p].seen = "consumed" => ~call[p].result

\* A second call for a consumed token, made before expire_at, has returned False.
C1_Witness ==
    \E p \in Threads : \E state \in UUIDs :
        /\ p \in Served(state)
        /\ call[p].seen = "consumed"
        /\ ~call[p].result
        /\ wins[state] = 1
        /\ now < expire_of[state]

\* C2: when two or more consume calls were made with the same valid token
\* before any of them was served, exactly one call returned True: one True
\* result is counted for the token and at most one of those calls holds it.
C2_OneWinner ==
    \A state \in UUIDs :
        LET racers == {p \in Served(state) : call[p].seen = "valid"}
        IN  Cardinality(racers) >= 2 =>
              /\ wins[state] = 1
              /\ Cardinality({p \in racers : call[p].result}) <= 1

\* Two calls raced for one valid token: one holds True, the other False.
C2_Witness ==
    \E p, q \in Threads : \E state \in UUIDs :
        /\ p # q
        /\ {p, q} \subseteq Served(state)
        /\ call[p].seen = "valid" /\ call[q].seen = "valid"
        /\ call[p].result /\ ~call[q].result

\* C3: the delete_many of consume(state) with the clock read as t removes
\* exactly the documents with that state and expire_at > t, the others stay
\* as they are, and the call returns True iff a document was removed (so a
\* call with t = expire_at returns False).
C3_ConsumeRemovesUnexpired ==
    [][\A p \in Threads :
          (call[p].op = "consume" /\ call'[p].op = "consumed") =>
              LET state == call[p].state
                  t     == call[p].t
                  gone  == {doc \in BagToSet(oauth_states) :
                              doc.state = state /\ doc.expire_at > t}
              IN  /\ BagToSet(oauth_states') = BagToSet(oauth_states) \ gone
                  /\ \A doc \in BagToSet(oauth_states') :
                        CopiesIn(doc, oauth_states') = CopiesIn(doc, oauth_states)
                  /\ call'[p].result = (gone # {})]_vars

\* A call made exactly at expire_at has returned False and the document is there.
C3_Witness ==
    \E p \in Threads : \E state \in UUIDs :
        /\ p \in Served(state)
        /\ call[p].seen = "expired"
        /\ ~call[p].result
        /\ now = expire_of[state]
        /\ expiration_seconds > 0
        /\ \E doc \in BagToSet(oauth_states) : doc.state = state

\* C4: a consume call that returns False leaves the collection as it was.
C4_FalseConsumeChangesNothing ==
    [][\A p \in Threads :
          (call[p].op = "consume" /\ call'[p].op = "consumed" /\ ~call'[p].result) =>
              oauth_states' = oauth_states]_vars

\* A call for an expired token has returned False; its document is still in
\* the collection, beside another token's.
C4_Witness ==
    \E p \in Threads : \E state \in UUIDs :
        /\ p \in Served(state)
        /\ call[p].seen = "expired"
        /\ ~call[p].result
        /\ BagCardinality(oauth_states) = 2
        /\ \E doc \in BagToSet(oauth_states) : doc.state = state

\* C5: issue(), whatever its arguments, appends exactly one document, whose
\* state is the value returned and whose expire_at is the time of the call plus
\* expiration_seconds, and leaves the documents that were there as they were.
C5_IssueInsertsOne ==
    [][uuid_count' # uuid_count =>
          LET new == [state |-> issue_ret', expire_at |-> now + expiration_seconds]
          IN  /\ BagToSet(oauth_states') = BagToSet(oauth_states) \cup {new}
              /\ BagCardinality(oauth_states') = BagCardinality(oauth_states) + 1
              /\ CopiesIn(new, oauth_states') = 1
              /\ \A doc \in BagToSet(oauth_states) :
                    CopiesIn(doc, oauth_states') = CopiesIn(doc, oauth_states)]_vars

\* A second issue() at a later time than the first: two documents, the new
\* one expiring later than the old one.
C5_Witness ==
    /\ issue_ret = 2
    /\ expiration_seconds > 0
    /\ BagCardinality(oauth_states) = 2
    /\ \E old, new \in BagToSet(oauth_states) :
          /\ old.state = 1 /\ new.state = 2
          /\ new.expire_at = now + expiration_seconds
          /\ new.expire_at > old.expire_at

\* C14: a state store with a non-positive expiration_seconds is never in
\* use: constructing it fails, so no token is issued by one (such a token
\* would be expired when issue() returns it, and every consume of it False).
C14_NonPositiveExpirationFails ==
    expiration_seconds <= 0 => IssuedStates = {}

\* ------------------------------------------------------ installation store

\* The installing applications: the client_id a store is constructed with.
ClientIds == {"A", "B"}
EnterpriseIds == {None, "E1"}
TeamIds == {None, "T1", "T2"}
UserIds == {"u1", "u2"}

\* The scopes <<client_id, enterprise_id, team_id>> that installations are
\* saved in: a workspace, its organization, and workspaces that differ from
\* it in the application or in the enterprise.
InstallationScopes ==
    { <<"A", "E1", "T1">>, <<"A", "E1", None>>, <<"A", None, "T1">>, <<"B", "E1", "T1">> }

\* The scopes that bots are saved in: those, and another team's.
BotScopes == InstallationScopes \cup { <<"A", "E1", "T2">> }

\* find_installation, lines 201-208: the bot fields that the merge copies.
BotFields ==
    {"bot_token", "bot_id", "bot_user_id", "bot_scopes", "bot_refresh_token",
     "bot_token_expires_at"}

\* The fields of Installation and of Bot that the stores read, and those of
\* their documents.
InstallationFields == {"enterprise_id", "team_id", "user_id", "installed_at"} \cup BotFields
BotModelFields == {"enterprise_id", "team_id", "installed_at"} \cup BotFields

\* An installation without a bot, and the bot credentials of two grants.
NoBot ==
    [bot_token |-> None, bot_id |-> None, bot_user_id |-> None, bot_scopes |-> None,
     bot_refresh_token |-> None, bot_token_expires_at |-> None]
Bot1 ==
    [bot_token |-> "xoxb-1", bot_id |-> "B1", bot_user_id |-> "W1", bot_scopes |-> "chat:write",
     bot_refresh_token |-> "xoxe-1", bot_token_expires_at |-> "expires-1"]
Bot2 ==
    [bot_token |-> "xoxb-2", bot_id |-> "B2", bot_user_id |-> "W2", bot_scopes |-> "commands",
     bot_refresh_token |-> "xoxe-2", bot_token_expires_at |-> "expires-2"]

\* The bot credentials the grant of a user carries.
BotOf(user_id) == IF user_id = "u1" THEN Bot1 ELSE Bot2

\* The Installation objects callers pass to save(), with the application
\* whose store they are passed to.
Installations ==
    { [client_id |-> scope[1],
       installation |->
          [enterprise_id |-> scope[2], team_id |-> scope[3], user_id |-> user_id,
           installed_at |-> installed_at]
          @@ (IF with_bot THEN BotOf(user_id) ELSE NoBot)] :
        scope \in InstallationScopes, user_id \in UserIds, installed_at \in InstalledAts,
        with_bot \in BOOLEAN }

\* The Bot objects callers pass to save_bot().
Bots ==
    { [client_id |-> scope[1],
       bot |->
          [enterprise_id |-> scope[2], team_id |-> scope[3],
           installed_at |-> installed_at] @@ credentials] :
        scope \in BotScopes, installed_at \in InstalledAts,
        credentials \in {NoBot, Bot1, Bot2} }

\* InstallationDocument.from_installation and asdict, lines 88-95: the
\* document save() inserts.
InstallationDocument(client_id, installation) ==
    [client_id |-> client_id] @@ [f \in InstallationFields |-> installation[f]]

\* BotDocument.from_bot and asdict, lines 105-110: the document save_bot() inserts.
BotDocument(client_id, bot) ==
    [client_id |-> client_id] @@ [f \in BotModelFields |-> bot[f]]

\* Installation.to_bot(), line 99: the Bot of an installation.
to_bot(installation) == [f \in BotModelFields |-> installation[f]]

\* The filter value {"$ne": None}.
NotNone == "$ne None"

\* Whether a document passes one field of a filter: a value of None matches a
\* null or missing field, {"$ne": None} a field that is set, any other value
\* an equal field.
FieldMatches(doc, f, value) ==
    IF value = None THEN f \notin DOMAIN doc \/ doc[f] = None
    ELSE IF value = NotNone THEN f \in DOMAIN doc /\ doc[f] # None
    ELSE f \in DOMAIN doc /\ doc[f] = value

\* Whether a document passes a filter.
Matches(doc, query) == \A f \in DOMAIN query : FieldMatches(doc, f, query[f])

\* The projection {"_id": 0, "client_id": 0}.
Projection(doc) == [f \in DOMAIN doc \ {"client_id"} |-> doc[f]]

\* A faulty sort: ASCENDING where the finders have DESCENDING.
SortAscending(docs) == {d \in docs : \A e \in docs : e.installed_at >= d.installed_at}

\* sort=[("installed_at", DESCENDING)]: the documents of docs that can come first.
SortDescending(docs) == {d \in docs : \A e \in docs : e.installed_at <= d.installed_at}

\* Collection.find_one(query, projection, sort): the documents it can return
\* (none: it returns None).
find_one(coll, query) ==
    {Projection(d) : d \in SortDescending({d \in BagToSet(coll) : Matches(d, query)})}

\* Collection.delete_many(query): what it leaves of the collection.
delete_many(coll, query) == Without(coll, {d \in BagToSet(coll) : Matches(d, query)})

\* A faulty query that takes the team_id argument as it is.
QueryTeamIdLiteral(team_id, is_enterprise_install) == team_id

\* find_bot, lines 134-136, and find_installation, line 174: the team_id of the query.
QueryTeamId(team_id, is_enterprise_install) ==
    IF team_id = None \/ is_enterprise_install THEN None ELSE team_id

\* A faulty query that leaves client_id out.
BotQueryAnyClient(client_id, enterprise_id, team_id, is_enterprise_install) ==
    [enterprise_id |-> enterprise_id,
     team_id |-> IF team_id = None \/ is_enterprise_install THEN None ELSE team_id]

\* find_bot, lines 131-137: the query.
BotQuery(client_id, enterprise_id, team_id, is_enterprise_install) ==
    [client_id |-> client_id, enterprise_id |-> enterprise_id,
     team_id |-> QueryTeamId(team_id, is_enterprise_install)]

\* A faulty find_installation query that leaves client_id out.
InstallationQueryAnyClient(client_id, enterprise_id, team_id, user_id, is_enterprise_install) ==
    LET query == [enterprise_id |-> enterprise_id,
                  team_id |-> IF team_id = None \/ is_enterprise_install THEN None ELSE team_id]
    IN  IF user_id # None THEN query @@ [user_id |-> user_id] ELSE query

\* find_installation, lines 171-177: the query.
InstallationQuery(client_id, enterprise_id, team_id, user_id, is_enterprise_install) ==
    LET query == [client_id |-> client_id, enterprise_id |-> enterprise_id,
                  team_id |-> QueryTeamId(team_id, is_enterprise_install)]
    IN  IF user_id # None THEN query @@ [user_id |-> user_id] ELSE query

\* A faulty query for the latest bot token, in any team.
LatestBotTokenQueryAnyTeam(query) ==
    [bot_token |-> NotNone] @@ [f \in DOMAIN query \ {"team_id"} |-> query[f]]

\* find_installation, line 190: the query for the latest bot token.
LatestBotTokenQuery(query) == [bot_token |-> NotNone] @@ query

\* find_installation, lines 198-210: doc.update with the bot fields of the
\* latest document that has a bot token.
Update(doc, latest_bot_token_doc) ==
    [f \in DOMAIN doc |-> IF f \in BotFields THEN latest_bot_token_doc[f] ELSE doc[f]]

\* What a finder returned: found is FALSE for None.
NoDoc == [none |-> TRUE]
Found(doc) == [found |-> TRUE, doc |-> doc]
NotFound == [found |-> FALSE, doc |-> NoDoc]

\* BotDocument(**doc), line 147, and InstallationDocument(**doc), line 212.
BotOfDocument(doc) == [f \in BotModelFields |-> doc[f]]
InstallationOfDocument(doc) == [f \in InstallationFields |-> doc[f]]

\* find_bot, lines 130-151: the values it can return.
FindBotResults(client_id, enterprise_id, team_id, is_enterprise_install) ==
    LET docs == find_one(slack_bots,
                         BotQuery(client_id, enterprise_id, team_id, is_enterprise_install))
    IN  IF docs = {} THEN {NotFound}
        ELSE {Found(BotOfDocument(doc)) : doc \in docs}

\* find_installation, lines 171-216: the values it can return.
FindInstallationResults(client_id, enterprise_id, team_id, user_id, is_enterprise_install) ==
    LET query  == InstallationQuery(client_id, enterprise_id, team_id, user_id,
                                    is_enterprise_install)
        docs   == find_one(slack_installations, query)
        latest == find_one(slack_installations, LatestBotTokenQuery(query))
    IN  IF docs = {} THEN {NotFound}
        ELSE IF user_id # None /\ latest # {}
        THEN {Found(InstallationOfDocument(Update(doc, latest_bot_token_doc))) :
                 doc \in docs, latest_bot_token_doc \in latest}
        ELSE {Found(InstallationOfDocument(doc)) : doc \in docs}

\* A call: the operation, the store's client_id, the arguments, the result.
Call(op, client_id, enterprise_id, team_id, user_id, is_enterprise_install, result) ==
    [op |-> op, client_id |-> client_id, enterprise_id |-> enterprise_id,
     team_id |-> team_id, user_id |-> user_id,
     is_enterprise_install |-> is_enterprise_install,
     found |-> result.found, doc |-> result.doc]

NoCall == Call("none", None, None, None, None, FALSE, NotFound)

\* The index every collection has.
DefaultIndexes == {<<"_id">>}

InstInit ==
    /\ slack_installations = EmptyBag
    /\ slack_bots = EmptyBag
    /\ ret = NoCall
    /\ installations_indexes = DefaultIndexes
    /\ bots_indexes = DefaultIndexes

\* Collection.create_index(keys): the indexes of the collection afterwards;
\* an index that exists is not created again.
create_index(indexes, keys) == indexes \cup {keys}

\* init, lines 65-71 and 75-80: the keys of the two indexes.
UserIndexKeys == <<"client_id", "enterprise_id", "team_id", "user_id", "installed_at">>
TeamIndexKeys == <<"client_id", "enterprise_id", "team_id", "installed_at">>

\* init(), lines 62-82: both create_index calls are made on
\* slack_installations_collection.
init(client_id) ==
    /\ ret = NoCall
    /\ installations_indexes' =
          create_index(create_index(installations_indexes, UserIndexKeys), TeamIndexKeys)
    /\ ret' = Call("init", client_id, None, None, None, FALSE, NotFound)
    /\ UNCHANGED <<slack_installations, slack_bots, bots_indexes>>

\* save_bot(bot), lines 101-113, on the store of client_id.
save_bot(client_id, bot) ==
    /\ ret = NoCall
    /\ BagCardinality(slack_bots) < MaxSaves
    /\ slack_bots' = insert_one(slack_bots, BotDocument(client_id, bot))
    /\ ret' = Call("save_bot", client_id, None, None, None, FALSE, NotFound)
    /\ UNCHANGED slack_installations

\* save(installation), lines 84-99, on the store of client_id: the
\* installation is inserted, then save_bot is called with its Bot.
save(client_id, installation) ==
    /\ ret = NoCall
    /\ BagCardinality(slack_installations) < MaxSaves
    /\ slack_installations' =
          insert_one(slack_installations, InstallationDocument(client_id, installation))
    /\ slack_bots' = insert_one(slack_bots, BotDocument(client_id, to_bot(installation)))
    /\ ret' = Call("save", client_id, None, None, None, FALSE, NotFound)

\* find_bot(enterprise_id, team_id, is_enterprise_install), lines 115-151.
find_bot(client_id, enterprise_id, team_id, is_enterprise_install) ==
    /\ ret = NoCall
    /\ \E result \in FindBotResults(client_id, enterprise_id, team_id, is_enterprise_install) :
          ret' = Call("find_bot", client_id, enterprise_id, team_id, None,
                      is_enterprise_install, result)
    /\ UNCHANGED <<slack_installations, slack_bots>>

\* A faulty find_installation that writes the merged document back over the
\* user's latest one.
AfterFindInstallationWritten(coll, client_id, enterprise_id, team_id, user_id, is_enterprise_install) ==
    LET query  == InstallationQuery(client_id, enterprise_id, team_id, user_id,
                                    is_enterprise_install)
        docs   == SortDescending({d \in BagToSet(coll) : Matches(d, query)})
        latest == SortDescending({d \in BagToSet(coll) :
                                     Matches(d, LatestBotTokenQuery(query))})
    IN  IF user_id = None \/ docs = {} \/ latest = {} THEN coll
        ELSE LET doc == CHOOSE d \in docs : TRUE
                 latest_bot_token_doc == CHOOSE d \in latest : TRUE
             IN  insert_one(Without(coll, {doc}), Update(doc, latest_bot_token_doc))

\* find_installation, lines 179-212: the installations collection afterwards.
\* The method only reads it: doc.update (line 198) changes the dict that
\* find_one returned, and nothing is written back.
AfterFindInstallation(coll, client_id, enterprise_id, team_id, user_id, is_enterprise_install) ==
    coll

\* find_installation(enterprise_id, team_id, user_id, is_enterprise_install),
\* lines 153-216.
find_installation(client_id, enterprise_id, team_id, user_id, is_enterprise_install) ==
    /\ ret = NoCall
    /\ \E result \in FindInstallationResults(client_id, enterprise_id, team_id, user_id,
                                             is_enterprise_install) :
          ret' = Call("find_installation", client_id, enterprise_id, team_id, user_id,
                      is_enterprise_install, result)
    /\ slack_installations' =
          AfterFindInstallation(slack_installations, client_id, enterprise_id, team_id,
                                user_id, is_enterprise_install)
    /\ UNCHANGED slack_bots

\* A faulty delete_bot query that leaves team_id out.
DeleteBotQueryAnyTeam(client_id, enterprise_id, team_id) ==
    [client_id |-> client_id, enterprise_id |-> enterprise_id]

\* delete_bot, lines 227-231: the query, with team_id as it was passed.
DeleteBotQuery(client_id, enterprise_id, team_id) ==
    [client_id |-> client_id, enterprise_id |-> enterprise_id, team_id |-> team_id]

\* A faulty delete_installation query that leaves user_id out.
DeleteInstallationQueryNoUser(client_id, enterprise_id, team_id, user_id) ==
    [client_id |-> client_id, enterprise_id |-> enterprise_id, team_id |-> team_id]

\* delete_installation, lines 249-255: the query.
DeleteInstallationQuery(client_id, enterprise_id, team_id, user_id) ==
    LET query == [client_id |-> client_id, enterprise_id |-> enterprise_id,
                  team_id |-> team_id]
    IN  IF user_id # None THEN query @@ [user_id |-> user_id] ELSE query

\* delete_bot(enterprise_id, team_id), lines 218-233.
delete_bot(client_id, enterprise_id, team_id) ==
    /\ ret = NoCall
    /\ slack_bots' = delete_many(slack_bots, DeleteBotQuery(client_id, enterprise_id, team_id))
    /\ ret' = Call("delete_bot", client_id, enterprise_id, team_id, None, FALSE, NotFound)
    /\ UNCHANGED slack_installations

\* delete_installation(enterprise_id, team_id, user_id), lines 235-259: the
\* delete_many of line 257 is on slack_bots_collection.
delete_installation(client_id, enterprise_id, team_id, user_id) ==
    /\ ret = NoCall
    /\ slack_bots' =
          delete_many(slack_bots,
                      DeleteInstallationQuery(client_id, enterprise_id, team_id, user_id))
    /\ ret' = Call("delete_installation", client_id, enterprise_id, team_id, user_id,
                   FALSE, NotFound)
    /\ UNCHANGED slack_installations

\* A call that raised: what the caller gets is the exception.
Raised(exc) == [found |-> FALSE, doc |-> [raised |-> exc]]

\* async_save(installation), lines 261-263: self.save(installation).
async_save(client_id, installation) ==
    /\ ret = NoCall
    /\ BagCardinality(slack_installations) < MaxSaves
    /\ slack_installations' =
          insert_one(slack_installations, InstallationDocument(client_id, installation))
    /\ slack_bots' = insert_one(slack_bots, BotDocument(client_id, to_bot(installation)))
    /\ ret' = Call("async_save", client_id, None, None, None, FALSE, NotFound)

\* async_save_bot(bot), lines 265-267: self.save_bot(bot).
async_save_bot(client_id, bot) ==
    /\ ret = NoCall
    /\ BagCardinality(slack_bots) < MaxSaves
    /\ slack_bots' = insert_one(slack_bots, BotDocument(client_id, bot))
    /\ ret' = Call("async_save_bot", client_id, None, None, None, FALSE, NotFound)
    /\ UNCHANGED slack_installations

\* async_find_bot, lines 269-279: self.find_bot(enterprise_id, team_id, ...)
\* passes two positional arguments to a method whose parameters are
\* keyword-only (line 117), which raises TypeError before find_bot's body runs.
async_find_bot(client_id, enterprise_id, team_id, is_enterprise_install) ==
    /\ ret = NoCall
    /\ ret' = Call("async_find_bot", client_id, enterprise_id, team_id, None,
                   is_enterprise_install, Raised("TypeError"))
    /\ UNCHANGED <<slack_installations, slack_bots>>

\* async_find_installation, lines 281-297: the same positional call of
\* find_installation (keyword-only, line 155).
async_find_installation(client_id, enterprise_id, team_id, user_id, is_enterprise_install) ==
    /\ ret = NoCall
    /\ ret' = Call("async_find_installation", client_id, enterprise_id, team_id, user_id,
                   is_enterprise_install, Raised("TypeError"))
    /\ UNCHANGED <<slack_installations, slack_bots>>

\* async_delete_bot, lines 299-306: the same positional call of delete_bot
\* (keyword-only, line 220).
async_delete_bot(client_id, enterprise_id, team_id) ==
    /\ ret = NoCall
    /\ ret' = Call("async_delete_bot", client_id, enterprise_id, team_id, None, FALSE,
                   Raised("TypeError"))
    /\ UNCHANGED <<slack_installations, slack_bots>>

\* async_delete_installation, lines 308-316: the same positional call of
\* delete_installation (keyword-only, line 237).
async_delete_installation(client_id, enterprise_id, team_id, user_id) ==
    /\ ret = NoCall
    /\ ret' = Call("async_delete_installation", client_id, enterprise_id, team_id, user_id,
                   FALSE, Raised("TypeError"))
    /\ UNCHANGED <<slack_installations, slack_bots>>

\* save(installation) insert by insert, for the runs in which an insert
\* raises or the process stops between the two. (The action save above is the
\* call in which neither happens and no other call comes between the inserts.)

\* A save that has inserted the installation and not yet its bot.
SaveInProgress(client_id, installation) ==
    Call("save: save_bot", client_id, None, None, None, FALSE,
         [found |-> FALSE, doc |-> installation])

\* A faulty save that takes the installation back when the bot insert raises.
AfterSaveBotRaisesRolledBack(coll, client_id, installation) ==
    Without(coll, {InstallationDocument(client_id, installation)})

\* save, line 99: save_bot raises and nothing catches it; the installations
\* collection is left as the insert of line 94 made it.
AfterSaveBotRaises(coll, client_id, installation) == coll

\* save, lines 88-97: the installation is inserted.
save_insert_one(client_id, installation) ==
    /\ ret = NoCall
    /\ BagCardinality(slack_installations) < MaxSaves
    /\ slack_installations' =
          insert_one(slack_installations, InstallationDocument(client_id, installation))
    /\ ret' = SaveInProgress(client_id, installation)
    /\ UNCHANGED slack_bots

\* save, line 94: insert_one raises; the error leaves save at once.
save_insert_one_raises(client_id, installation) ==
    /\ ret = NoCall
    /\ ret' = Call("save", client_id, None, None, None, FALSE, Raised("PyMongoError"))
    /\ UNCHANGED <<slack_installations, slack_bots>>

\* save, line 99, and save_bot, lines 105-113: the bot is inserted and save returns.
save_save_bot ==
    /\ ret.op = "save: save_bot"
    /\ slack_bots' = insert_one(slack_bots, BotDocument(ret.client_id, to_bot(ret.doc)))
    /\ ret' = Call("save", ret.client_id, None, None, None, FALSE, NotFound)
    /\ UNCHANGED slack_installations

\* save, line 99, and save_bot, line 109: insert_one raises; the error leaves
\* save_bot and save.
save_save_bot_raises ==
    /\ ret.op = "save: save_bot"
    /\ slack_installations' = AfterSaveBotRaises(slack_installations, ret.client_id, ret.doc)
    /\ ret' = Call("save", ret.client_id, None, None, None, FALSE, Raised("PyMongoError"))
    /\ UNCHANGED slack_bots

\* The process stops between the two inserts.
save_stops ==
    /\ ret.op = "save: save_bot"
    /\ ret' = Call("save", ret.client_id, None, None, None, FALSE, Raised("stopped"))
    /\ UNCHANGED <<slack_installations, slack_bots>>

\* The caller takes the result; the next call can start.
return ==
    /\ ret # NoCall
    /\ ret' = NoCall
    /\ UNCHANGED <<slack_installations, slack_bots>>

\* The team_id arguments of find_installation.
InstallationTeamIds == {scope[3] : scope \in InstallationScopes}

\* The installation store's calls that read and write the installations.
InstallationNext ==
    \/ return
    \/ \E i \in Installations : save(i.client_id, i.installation)
    \/ \E client_id \in ClientIds, enterprise_id \in EnterpriseIds,
          team_id \in InstallationTeamIds, user_id \in UserIds \cup {None},
          is_enterprise_install \in BOOLEAN :
          find_installation(client_id, enterprise_id, team_id, user_id, is_enterprise_install)

\* The installation store's calls that read and write the bots alone.
BotNext ==
    \/ return
    \/ \E b \in Bots : save_bot(b.client_id, b.bot)
    \/ \E client_id \in ClientIds, enterprise_id \in EnterpriseIds, team_id \in TeamIds,
          is_enterprise_install \in BOOLEAN :
          find_bot(client_id, enterprise_id, team_id, is_enterprise_install)

\* The installations and the bots saved beside the deletions: one
\* installed_at and one grant for each; the bots saved without an
\* installation are those of one enterprise: two teams' and the organization's.
DeletionInstallations ==
    {i \in Installations :
        i.installation.installed_at = 1 /\ i.installation.bot_token # None}
DeletionBots ==
    {b \in Bots :
        /\ b.bot.installed_at = 1 /\ b.bot.bot_token = Bot1.bot_token
        /\ b.client_id = "A" /\ b.bot.enterprise_id = "E1"}

\* The installation store's calls that write and delete.
DeletionNext ==
    \/ return
    \/ \E i \in DeletionInstallations : save(i.client_id, i.installation)
    \/ \E b \in DeletionBots : save_bot(b.client_id, b.bot)
    \/ \E client_id \in ClientIds, enterprise_id \in EnterpriseIds, team_id \in TeamIds :
          delete_bot(client_id, enterprise_id, team_id)
    \/ \E client_id \in ClientIds, enterprise_id \in EnterpriseIds, team_id \in TeamIds,
          user_id \in UserIds \cup {None} :
          delete_installation(client_id, enterprise_id, team_id, user_id)

\* What the asynchronous entry points are called with: one application's
\* installations and bots, and lookups in its scopes.
AsyncInstallations ==
    {i \in DeletionInstallations : i.client_id = "A" /\ i.installation.user_id = "u1"}
AsyncBots == {b \in DeletionBots : b.client_id = "A" /\ b.bot.enterprise_id = "E1"}

\* The asynchronous entry points of the installation store.
AsyncInstallationNext ==
    \/ return
    \/ \E i \in AsyncInstallations : async_save(i.client_id, i.installation)
    \/ \E b \in AsyncBots : async_save_bot(b.client_id, b.bot)
    \/ \E enterprise_id \in EnterpriseIds, team_id \in InstallationTeamIds,
          is_enterprise_install \in BOOLEAN :
          async_find_bot("A", enterprise_id, team_id, is_enterprise_install)
    \/ \E enterprise_id \in EnterpriseIds, team_id \in InstallationTeamIds,
          user_id \in {"u1", None}, is_enterprise_install \in BOOLEAN :
          async_find_installation("A", enterprise_id, team_id, user_id, is_enterprise_install)
    \/ \E enterprise_id \in EnterpriseIds, team_id \in InstallationTeamIds :
          async_delete_bot("A", enterprise_id, team_id)
    \/ \E enterprise_id \in EnterpriseIds, team_id \in InstallationTeamIds,
          user_id \in {"u1", None} :
          async_delete_installation("A", enterprise_id, team_id, user_id)

\* The asynchronous entry points of the state store, called from one thread.
AsyncStateNext ==
    \/ \E args \in IssueArgs : async_issue(args)
    \/ \E state \in UUIDs \cup {UnknownState} : async_consume_call(1, state)
    \/ async_consume_delete(1)

\* Two applications installed in the same workspace by the same user, with
\* or without a bot grant: what the two stores are called with.
ClientInstallations ==
    {i \in Installations :
        /\ i.installation.enterprise_id = "E1" /\ i.installation.team_id = "T1"
        /\ i.installation.user_id = "u1"}
ClientBots ==
    {b \in Bots :
        /\ b.bot.enterprise_id = "E1" /\ b.bot.team_id = "T1" /\ b.bot.installed_at = 1
        /\ b.bot.bot_token = (IF b.client_id = "A" THEN Bot1 ELSE Bot2).bot_token}

\* Two stores with different client_ids over the same collections: all their calls.
ClientNext ==
    \/ return
    \/ \E i \in ClientInstallations : save(i.client_id, i.installation)
    \/ \E b \in ClientBots : save_bot(b.client_id, b.bot)
    \/ \E client_id \in ClientIds, is_enterprise_install \in BOOLEAN :
          find_bot(client_id, "E1", "T1", is_enterprise_install)
    \/ \E client_id \in ClientIds, user_id \in {"u1", None},
          is_enterprise_install \in BOOLEAN :
          find_installation(client_id, "E1", "T1", user_id, is_enterprise_install)
    \/ \E client_id \in ClientIds : delete_bot(client_id, "E1", "T1")
    \/ \E client_id \in ClientIds, user_id \in {"u1", None} :
          delete_installation(client_id, "E1", "T1", user_id)

\* The installations one store saves insert by insert.
SaveInstallations == {i \in Installations : i.client_id = "A"}

\* save, insert by insert, with the inserts that raise.
SaveNext ==
    \/ ret.op # "save: save_bot" /\ return
    \/ \E i \in SaveInstallations : save_insert_one(i.client_id, i.installation)
    \/ \E i \in SaveInstallations : save_insert_one_raises(i.client_id, i.installation)
    \/ save_save_bot
    \/ save_save_bot_raises
    \/ save_stops

\* init() of the two stores, before, between and after saves.
IndexNext ==
    \/ return /\ UNCHANGED index_vars
    \/ \E i \in DeletionInstallations : save(i.client_id, i.installation) /\ UNCHANGED index_vars
    \/ \E client_id \in ClientIds : init(client_id)

\* ----------------------------------------- installation store: the claims

\* The team_id that the scope rule gives the last finder call.
ScopeTeamId == IF ret.is_enterprise_install \/ ret.team_id = None THEN None ELSE ret.team_id

\* The documents of a collection in the scope of the last finder call.
InScope(coll) ==
    {d \in BagToSet(coll) :
        /\ d.client_id = ret.client_id
        /\ d.enterprise_id = ret.enterprise_id
        /\ d.team_id = ScopeTeamId}

\* The documents of docs with the greatest installed_at.
Latest(docs) == {d \in docs : \A e \in docs : e.installed_at <= d.installed_at}

\* The Installation, and the Bot, that a document was saved from.
SavedInstallation(d) == [f \in InstallationFields |-> d[f]]
SavedBot(d) == [f \in BotModelFields |-> d[f]]

\* The installations in scope of the user the last call names, and those in
\* scope that have a bot token.
OfUser == {d \in InScope(slack_installations) : d.user_id = ret.user_id}
WithBotToken == {d \in InScope(slack_installations) : d.bot_token # None}

\* C6: find_installation with a user_id returns the user's latest in-scope
\* installation with its six bot fields replaced by those of the latest
\* in-scope installation, of any user, that has a bot token.
C6_MergesLatestBotTokenInScope ==
    (ret.op = "find_installation" /\ ret.user_id # None /\ ret.found) =>
        \E own \in Latest(OfUser) :
            IF WithBotToken = {} THEN ret.doc = SavedInstallation(own)
            ELSE \E latest \in Latest(WithBotToken) :
                    ret.doc = [f \in InstallationFields |->
                                  IF f \in BotFields THEN latest[f] ELSE own[f]]

\* C7: when no installation in scope has a bot token, find_installation with
\* a user_id returns the user's latest in-scope installation as it was saved,
\* and None only when the user has none in scope.
C7_NoBotTokenNoMerge ==
    (ret.op = "find_installation" /\ ret.user_id # None /\ WithBotToken = {}) =>
        /\ ret.found <=> OfUser # {}
        /\ ret.found => \E own \in Latest(OfUser) : ret.doc = SavedInstallation(own)

\* The user's installation was returned with its null bot fields, while the
\* same user has a bot token in another scope.
C7_Witness ==
    /\ ret.op = "find_installation" /\ ret.user_id # None /\ ret.found
    /\ WithBotToken = {}
    /\ ret.doc.bot_token = None /\ ret.doc.bot_id = None
    /\ \E d \in BagToSet(slack_installations) :
          /\ d \notin InScope(slack_installations)
          /\ d.user_id = ret.user_id
          /\ d.bot_token # None

\* C8: find_installation without a user_id returns an in-scope installation
\* with the greatest installed_at, as it was saved, and None only when no
\* installation is in scope.
C8_LatestInScope ==
    (ret.op = "find_installation" /\ ret.user_id = None) =>
        /\ ret.found <=> InScope(slack_installations) # {}
        /\ ret.found =>
              \E d \in Latest(InScope(slack_installations)) : ret.doc = SavedInstallation(d)

\* Two installations in scope: the later one, which has no bot token, was
\* returned as saved although the earlier one has a bot token.
C8_Witness ==
    /\ ret.op = "find_installation" /\ ret.user_id = None /\ ret.found
    /\ \E old, new \in InScope(slack_installations) :
          /\ old.installed_at < new.installed_at
          /\ old.bot_token # None /\ new.bot_token = None
          /\ ret.doc = SavedInstallation(new)

\* C9: find_installation with is_enterprise_install true, or without a
\* team_id, returns only an installation that was saved without a team_id.
C9_EnterpriseInstallHasNoTeam ==
    (ret.op = "find_installation" /\ ret.found
        /\ (ret.is_enterprise_install \/ ret.team_id = None)) =>
        /\ ret.doc.team_id = None
        /\ \E d \in BagToSet(slack_installations) :
              /\ d.team_id = None
              /\ \A f \in InstallationFields \ BotFields : ret.doc[f] = d[f]

\* An enterprise-install lookup with a team_id argument returned the
\* organization's installation while that team has one of its own.
C9_Witness ==
    /\ ret.op = "find_installation" /\ ret.found
    /\ ret.is_enterprise_install /\ ret.team_id = "T1"
    /\ ret.doc.team_id = None
    /\ \E d \in BagToSet(slack_installations) :
          /\ d.client_id = ret.client_id /\ d.enterprise_id = ret.enterprise_id
          /\ d.team_id = "T1"

\* C10: find_bot returns a bot of the store's client_id, of the enterprise_id
\* and of the scope rule's team_id with the greatest installed_at, and None
\* only when there is no such bot.
C10_FindBotLatestInScope ==
    ret.op = "find_bot" =>
        /\ ret.found <=> InScope(slack_bots) # {}
        /\ ret.found => \E d \in Latest(InScope(slack_bots)) : ret.doc = SavedBot(d)

\* Two bots in scope with different installed_at: the later one was returned.
C10_Witness ==
    /\ ret.op = "find_bot" /\ ret.found
    /\ \E old, new \in InScope(slack_bots) :
          /\ old.installed_at < new.installed_at
          /\ ret.doc = SavedBot(new)

\* C11: delete_bot with a team_id removes every bot of the store's client_id
\* with that enterprise_id and that team_id, and nothing else: every other
\* bot, the organization's among them, keeps its copies, and the
\* installations are as they were.
C11_DeleteBotExactTeam ==
    [][(ret = NoCall /\ ret'.op = "delete_bot" /\ ret'.team_id # None) =>
          /\ slack_installations' = slack_installations
          /\ BagToSet(slack_bots') \subseteq BagToSet(slack_bots)
          /\ \A d \in BagToSet(slack_bots) :
                IF /\ d.client_id = ret'.client_id
                   /\ d.enterprise_id = ret'.enterprise_id
                   /\ d.team_id = ret'.team_id
                THEN d \notin BagToSet(slack_bots')
                ELSE CopiesIn(d, slack_bots') = CopiesIn(d, slack_bots)]_vars

\* delete_bot for team T1 has returned: the installation of T1 is there, its
\* bot is not, and the organization's bot and team T2's bot are.
C11_Witness ==
    /\ ret.op = "delete_bot" /\ ret.team_id = "T1"
    /\ \E i \in BagToSet(slack_installations) :
          /\ i.client_id = ret.client_id /\ i.enterprise_id = ret.enterprise_id
          /\ i.team_id = "T1"
    /\ \A d \in BagToSet(slack_bots) :
          ~(/\ d.client_id = ret.client_id /\ d.enterprise_id = ret.enterprise_id
            /\ d.team_id = "T1")
    /\ \E org, other \in BagToSet(slack_bots) :
          /\ org.client_id = ret.client_id /\ org.enterprise_id = ret.enterprise_id
          /\ org.team_id = None
          /\ other.client_id = ret.client_id /\ other.enterprise_id = ret.enterprise_id
          /\ other.team_id = "T2"

\* The result of the last installation store call.
Result == [found |-> ret.found, doc |-> ret.doc]

\* C12: every asynchronous entry point does to the store, and returns, what
\* its synchronous counterpart does from the same state with the same
\* arguments, and raises nothing the counterpart does not raise.
C12_AsyncAsSync ==
    [][/\ (ret = NoCall /\ ret'.op = "async_save") =>
             \E i \in Installations :
                 /\ i.client_id = ret'.client_id
                 /\ slack_installations' =
                       insert_one(slack_installations,
                                  InstallationDocument(i.client_id, i.installation))
                 /\ slack_bots' =
                       insert_one(slack_bots, BotDocument(i.client_id, to_bot(i.installation)))
                 /\ Result' = NotFound
       /\ (ret = NoCall /\ ret'.op = "async_save_bot") =>
             \E b \in Bots :
                 /\ b.client_id = ret'.client_id
                 /\ slack_bots' = insert_one(slack_bots, BotDocument(b.client_id, b.bot))
                 /\ slack_installations' = slack_installations
                 /\ Result' = NotFound
       /\ (ret = NoCall /\ ret'.op = "async_find_bot") =>
             /\ Result' \in FindBotResults(ret'.client_id, ret'.enterprise_id, ret'.team_id,
                                           ret'.is_enterprise_install)
             /\ UNCHANGED <<slack_installations, slack_bots>>
       /\ (ret = NoCall /\ ret'.op = "async_find_installation") =>
             /\ Result' \in FindInstallationResults(ret'.client_id, ret'.enterprise_id,
                                                    ret'.team_id, ret'.user_id,
                                                    ret'.is_enterprise_install)
             /\ UNCHANGED <<slack_installations, slack_bots>>
       /\ (ret = NoCall /\ ret'.op = "async_delete_bot") =>
             /\ slack_bots' =
                   delete_many(slack_bots,
                               DeleteBotQuery(ret'.client_id, ret'.enterprise_id, ret'.team_id))
             /\ slack_installations' = slack_installations
             /\ Result' = NotFound
       /\ (ret = NoCall /\ ret'.op = "async_delete_installation") =>
             /\ slack_bots' =
                   delete_many(slack_bots,
                               DeleteInstallationQuery(ret'.client_id, ret'.enterprise_id,
                                                       ret'.team_id, ret'.user_id))
             /\ slack_installations' = slack_installations
             /\ Result' = NotFound
       /\ uuid_count' # uuid_count =>
             /\ issue_ret' = uuid4
             /\ oauth_states' = insert_one(oauth_states, IssueDocument(uuid4, now))
       /\ \A p \in Threads :
             (call[p].op = "consume" /\ call'[p].op = "consumed") =>
                 /\ call'[p].result =
                       ConsumeResult(deleted_count(oauth_states, call[p].state, call[p].t))
                 /\ oauth_states' = delete_many_states(oauth_states, call[p].state, call[p].t)
      ]_vars

\* The installations that the ids of the last call name: those of the store's
\* client_id with its enterprise_id and team_id, and its user_id when it has one.
NamedInstallations ==
    {d \in BagToSet(slack_installations) :
        /\ d.client_id = ret.client_id
        /\ d.enterprise_id = ret.enterprise_id
        /\ d.team_id = ret.team_id
        /\ ret.user_id # None => d.user_id = ret.user_id}

\* C13: when delete_installation has returned, no installation that its ids
\* name is left, and find_installation with the same ids finds none.
C13_DeleteInstallationDeletes ==
    ret.op = "delete_installation" =>
        /\ NamedInstallations = {}
        /\ FindInstallationResults(ret.client_id, ret.enterprise_id, ret.team_id,
                                   ret.user_id, FALSE) = {NotFound}

C15_ClientsIsolated ==
    [][ret = NoCall =>
          /\ (ret'.op = "find_bot" /\ ret'.found) =>
                \E d \in BagToSet(slack_bots) :
                    d.client_id = ret'.client_id /\ ret'.doc = SavedBot(d)
          /\ (ret'.op = "find_installation" /\ ret'.found) =>
                \E own, latest \in BagToSet(slack_installations) :
                    /\ own.client_id = ret'.client_id
                    /\ latest.client_id = ret'.client_id
                    /\ ret'.doc = [f \in InstallationFields |->
                                      IF f \in BotFields THEN latest[f] ELSE own[f]]
          /\ ret'.op \in {"delete_bot", "delete_installation"} =>
                /\ \A d \in BagToSet(slack_bots) :
                      d.client_id # ret'.client_id =>
                          CopiesIn(d, slack_bots') = CopiesIn(d, slack_bots)
                /\ \A d \in BagToSet(slack_installations) :
                      d.client_id # ret'.client_id =>
                          CopiesIn(d, slack_installations') = CopiesIn(d, slack_installations)
       ]_vars

\* One store's find_installation has returned its own installation, which
\* has no bot token, while the other store's installation for the same
\* workspace and user is the later one and has a bot token.
C15_Witness ==
    /\ ret.op = "find_installation" /\ ret.found
    /\ \E own, other \in BagToSet(slack_installations) :
          /\ own.client_id = ret.client_id /\ other.client_id # ret.client_id
          /\ other.enterprise_id = own.enterprise_id /\ other.team_id = own.team_id
          /\ other.user_id = own.user_id
          /\ other.installed_at > own.installed_at
          /\ ret.doc = SavedInstallation(own)
          /\ ret.doc.bot_token = None /\ other.bot_token # None

\* Whether coll2 is coll1 with exactly one more copy of doc.
OneMore(coll1, coll2, doc) ==
    /\ BagToSet(coll2) = BagToSet(coll1) \cup {doc}
    /\ \A d \in BagToSet(coll2) :
          CopiesIn(d, coll2) = CopiesIn(d, coll1) + (IF d = doc THEN 1 ELSE 0)

\* C16: a save that completes adds one installation record and leaves the
\* bots alone, then adds one bot record, with the store's client_id and the
\* installation's enterprise_id, team_id, bot fields and installed_at, and
\* leaves the installations alone; every record that was there keeps its
\* copies, an equal one too.
C16_SaveInsertsBoth ==
    [][/\ (ret = NoCall /\ ret'.op = "save: save_bot") =>
             /\ OneMore(slack_installations, slack_installations',
                        [client_id |-> ret'.client_id] @@ ret'.doc)
             /\ slack_bots' = slack_bots
       /\ (ret.op = "save: save_bot" /\ ret'.op = "save" /\ ret'.doc = NoDoc) =>
             /\ slack_installations' = slack_installations
             /\ \E b \in BagToSet(slack_bots') :
                   /\ OneMore(slack_bots, slack_bots', b)
                   /\ b.client_id = ret.client_id
                   /\ \A f \in {"enterprise_id", "team_id", "installed_at"} \cup BotFields :
                         b[f] = ret.doc[f]
      ]_vars

\* The same installation has been saved twice: two copies of its record and
\* two copies of its bot's.
C16_Witness ==
    /\ ret.op = "save" /\ ret.doc = NoDoc
    /\ \E d \in BagToSet(slack_installations) :
          /\ CopiesIn(d, slack_installations) = 2
          /\ d.bot_token # None
          /\ \E b \in BagToSet(slack_bots) :
                /\ CopiesIn(b, slack_bots) = 2
                /\ b = BotDocument(d.client_id, to_bot(d))

\* C19: when the bot insert of a save raises, or the process stops before
\* it, save ends with that error, the installation it inserted stays and no
\* bot is written; when the installation insert raises, save ends with that
\* error and neither collection has changed.
C19_SaveNotAtomic ==
    [][/\ (ret.op = "save: save_bot" /\ ret'.op = "save" /\ ret'.doc # NoDoc) =>
             /\ ret'.doc \in {Raised("PyMongoError").doc, Raised("stopped").doc}
             /\ slack_installations' = slack_installations
             /\ CopiesIn([client_id |-> ret.client_id] @@ ret.doc, slack_installations') >= 1
             /\ slack_bots' = slack_bots
       /\ (ret = NoCall /\ ret'.op = "save" /\ ret'.doc # NoDoc) =>
             /\ ret'.doc = Raised("PyMongoError").doc
             /\ slack_installations' = slack_installations
             /\ slack_bots' = slack_bots
      ]_vars

\* A save has ended with the bot insert's error: find_installation returns
\* the installation it inserted, find_bot for the same scope returns None.
C19_Witness ==
    /\ ret.op = "save" /\ ret.doc = Raised("PyMongoError").doc
    /\ \E d \in BagToSet(slack_installations) :
          /\ FindInstallationResults(d.client_id, d.enterprise_id, d.team_id, d.user_id,
                                     FALSE) = {Found(SavedInstallation(d))}
          /\ FindBotResults(d.client_id, d.enterprise_id, d.team_id, FALSE) = {NotFound}

\* C17: a call of init() leaves the installations with an index on
\* (client_id, enterprise_id, team_id, user_id, installed_at) and the bots
\* with one on (client_id, enterprise_id, team_id, installed_at); it changes
\* no record, and when init() was called before (only init() creates those
\* indexes) it leaves the indexes as they were.
C17_InitCreatesBothIndexes ==
    [][(ret = NoCall /\ ret'.op = "init") =>
          /\ UserIndexKeys \in installations_indexes'
          /\ TeamIndexKeys \in bots_indexes'
          /\ UNCHANGED <<slack_installations, slack_bots>>
          /\ UserIndexKeys \in installations_indexes => UNCHANGED index_vars]_vars

\* C20: a stored installation record is never rewritten or removed: every
\* step keeps each record of slack_installations, with all its copies and
\* all its fields; only a save changes the collection, by one record more;
\* find_installation changes what it returns and not what is stored.
C20_InstallationsImmutable ==
    [][/\ \A d \in BagToSet(slack_installations) :
             CopiesIn(d, slack_installations') >= CopiesIn(d, slack_installations)
       /\ BagCardinality(slack_installations') <= BagCardinality(slack_installations) + 1
       /\ ret'.op # "save" => slack_installations' = slack_installations]_vars

\* find_installation has returned the user's latest installation with the
\* bot fields of an earlier one: the stored record still has none.
C20_Witness ==
    /\ ret.op = "find_installation" /\ ret.found /\ ret.user_id # None
    /\ ret.doc.bot_token # None
    /\ \E own \in Latest(OfUser) :
          /\ own.bot_token = None
          /\ \A f \in InstallationFields \ BotFields : ret.doc[f] = own[f]
    /\ \A d \in OfUser : d.bot_token # None => SavedInstallation(d) # ret.doc

\* ------------------------------------------------------------ whole model

Init == StateInit /\ InstInit

Next ==
    \/ StateNext /\ UNCHANGED <<inst_vars, index_vars>>
    \/ InstallationNext /\ UNCHANGED <<state_vars, index_vars>>
    \/ BotNext /\ UNCHANGED <<state_vars, index_vars>>
    \/ DeletionNext /\ UNCHANGED <<state_vars, index_vars>>
    \/ IndexNext /\ UNCHANGED state_vars
    \/ SaveNext /\ UNCHANGED <<state_vars, index_vars>>
    \/ ClientNext /\ UNCHANGED <<state_vars, index_vars>>
    \/ AsyncInstallationNext /\ UNCHANGED <<state_vars, index_vars>>
    \/ AsyncStateNext /\ UNCHANGED <<inst_vars, index_vars>>

Spec == Init /\ [][Next]_vars

\* The state store alone.
StateSpec == Init /\ [][StateNext /\ UNCHANGED <<inst_vars, index_vars>>]_vars

\* The installation store beside a state store that is not called (the two
\* share no state: one state store configuration stands for all).
InstallationInit == Init /\ expiration_seconds = MaxExpiration

\* The installation store: save and find_installation. The calls left out
\* (save_bot, find_bot, the deletions) neither read nor write
\* slack_installations.
InstallationSpec ==
    InstallationInit /\ [][InstallationNext /\ UNCHANGED <<state_vars, index_vars>>]_vars

\* The installation store: save_bot and find_bot.
BotSpec == InstallationInit /\ [][BotNext /\ UNCHANGED <<state_vars, index_vars>>]_vars

\* Both stores, called through their asynchronous entry points.
AsyncSpec ==
    InstallationInit
        /\ [][\/ AsyncInstallationNext /\ UNCHANGED <<state_vars, index_vars>>
              \/ AsyncStateNext /\ UNCHANGED <<inst_vars, index_vars>>]_vars

\* Two installation stores with different client_ids over the same collections.
ClientSpec == InstallationInit /\ [][ClientNext /\ UNCHANGED <<state_vars, index_vars>>]_vars

\* The installation store: save, insert by insert.
SaveSpec == InstallationInit /\ [][SaveNext /\ UNCHANGED <<state_vars, index_vars>>]_vars

\* The installation store: init and save.
IndexSpec == InstallationInit /\ [][IndexNext /\ UNCHANGED state_vars]_vars

\* The installation store: the saves and the deletions.
DeletionSpec == InstallationInit /\ [][DeletionNext /\ UNCHANGED <<state_vars, index_vars>>]_vars

====
